---- MODULE Spec2Model ----
(***************************************************************************)
(* Model of sci-dl: the resolver (Sci), the fetcher (Dl), the proxy value   *)
(* object and the two pipelines built on them, the library call dl_by_doi   *)
(* and the command line command "dl" (sci_dl_dl).                           *)
(*                                                                         *)
(* Python strings the code inspects character by character (URLs, DOIs,    *)
(* file names) are sequences of one-character strings.  Strings the code   *)
(* only compares as a whole (header values, configuration keys, messages)  *)
(* are TLA+ strings.                                                       *)
(***************************************************************************)
EXTENDS Integers, Sequences, FiniteSets, TLC

(***************************************************************************)
(* Bounds of the model.                                                    *)
(***************************************************************************)
\* largest value of the "retries" configuration field that is explored
MaxRetries == 2
\* largest number of chunks in the body of a file response
MaxChunks == 2

(***************************************************************************)
(* str methods used by the code.                                           *)
(***************************************************************************)
\* str.startswith
StartsWith(s, p) == Len(s) >= Len(p) /\ SubSeq(s, 1, Len(p)) = p

\* s[-n:]
Tail_n(s, n) == IF Len(s) <= n THEN s ELSE SubSeq(s, Len(s) - n + 1, Len(s))

\* s[:-n]
DropLast(s, n) == IF Len(s) <= n THEN <<>> ELSE SubSeq(s, 1, Len(s) - n)

\* c in s
Contains(s, c) == \E k \in 1..Len(s) : s[k] = c

\* str.replace(old, new): leftmost, non-overlapping occurrences
RECURSIVE Replace(_, _, _)
Replace(s, old, new) ==
    IF Len(s) < Len(old) THEN s
    ELSE IF SubSeq(s, 1, Len(old)) = old
         THEN new \o Replace(SubSeq(s, Len(old) + 1, Len(s)), old, new)
         ELSE <<s[1]>> \o Replace(SubSeq(s, 2, Len(s)), old, new)

\* str.find(c): index of the first c, 0 when there is none
Find(s, c) == IF Contains(s, c) THEN CHOOSE k \in 1..Len(s) : s[k] = c /\ \A j \in 1..(k-1) : s[j] # c ELSE 0

\* str.split(c)
RECURSIVE Split(_, _)
Split(s, c) ==
    IF Find(s, c) = 0 THEN <<s>>
    ELSE <<SubSeq(s, 1, Find(s, c) - 1)>> \o Split(SubSeq(s, Find(s, c) + 1, Len(s)), c)

\* c.join(parts)
RECURSIVE Join(_, _)
Join(parts, c) ==
    IF Len(parts) = 0 THEN <<>>
    ELSE IF Len(parts) = 1 THEN parts[1]
    ELSE parts[1] \o <<c>> \o Join(Tail(parts), c)

\* '%d' % n for n >= 0
Digit(d) == <<"0","1","2","3","4","5","6","7","8","9">>[d + 1]
RECURSIVE IntToStr(_)
IntToStr(n) == IF n < 10 THEN <<Digit(n)>> ELSE IntToStr(n \div 10) \o <<Digit(n % 10)>>

(***************************************************************************)
(* urllib.parse.quote and urllib.parse.urljoin, for the URLs and           *)
(* passwords of this model: no query, parameters or fragment in a base URL *)
(* or an identifier, and no scheme in an identifier.                       *)
(***************************************************************************)
\* characters quote() leaves alone: unreserved characters and "/"
QuoteSafe ==
    {"a","b","c","d","e","f","g","h","i","j","k","l","m","n","o","p","q","r","s","t","u","v","w","x","y","z",
     "A","B","C","D","E","F","G","H","I","J","K","L","M","N","O","P","Q","R","S","T","U","V","W","X","Y","Z",
     "0","1","2","3","4","5","6","7","8","9","_",".","-","~","/"}

\* the percent-encoding of the other ASCII characters the model uses
PercentCode(c) ==
    CASE c = ";" -> <<"%","3","B">>
      [] c = ":" -> <<"%","3","A">>
      [] c = "@" -> <<"%","4","0">>
      [] c = " " -> <<"%","2","0">>
      [] c = "#" -> <<"%","2","3">>
      [] c = "?" -> <<"%","3","F">>
      [] c = "=" -> <<"%","3","D">>
      [] c = "&" -> <<"%","2","6">>
      [] c = "\\" -> <<"%","5","C">>

RECURSIVE quote(_)
quote(s) ==
    IF Len(s) = 0 THEN <<>>
    ELSE (IF s[1] \in QuoteSafe THEN <<s[1]>> ELSE PercentCode(s[1])) \o quote(Tail(s))

\* the scheme, network location and path of an absolute URL scheme://netloc/path
UrlScheme(u) == SubSeq(u, 1, Find(u, ":") - 1)
UrlRest(u) == SubSeq(u, Find(u, ":") + 3, Len(u))
UrlNetloc(u) == IF Find(UrlRest(u), "/") = 0 THEN UrlRest(u) ELSE SubSeq(UrlRest(u), 1, Find(UrlRest(u), "/") - 1)
UrlPath(u) == IF Find(UrlRest(u), "/") = 0 THEN <<>> ELSE SubSeq(UrlRest(u), Find(UrlRest(u), "/"), Len(UrlRest(u)))

\* filter(None, segs): drop the empty segments
RECURSIVE DropEmpty(_)
DropEmpty(segs) ==
    IF Len(segs) = 0 THEN <<>>
    ELSE (IF segs[1] = <<>> THEN <<>> ELSE <<segs[1]>>) \o DropEmpty(Tail(segs))

\* the loop of urljoin that removes "." and ".." segments
RECURSIVE ResolveDots(_, _)
ResolveDots(segs, acc) ==
    IF Len(segs) = 0 THEN acc
    ELSE IF segs[1] = <<".",".">> THEN ResolveDots(Tail(segs), DropLast(acc, 1))
    ELSE IF segs[1] = <<".">> THEN ResolveDots(Tail(segs), acc)
    ELSE ResolveDots(Tail(segs), Append(acc, segs[1]))

\* urlunparse for a URL with a network location and no query/fragment
UrlUnparse(scheme, netloc, path) ==
    scheme \o <<":","/","/">> \o netloc \o (IF Len(path) > 0 /\ path[1] # "/" THEN <<"/">> ELSE <<>>) \o path

UrlJoinSegments(base, path) ==
    LET base_parts == Split(UrlPath(base), "/")
        dir_parts  == IF base_parts[Len(base_parts)] # <<>> THEN DropLast(base_parts, 1) ELSE base_parts
        joined     == dir_parts \o Split(path, "/")
    IN  IF path[1] = "/" THEN Split(path, "/")
        ELSE IF Len(joined) <= 2 THEN joined
        ELSE <<joined[1]>> \o DropEmpty(SubSeq(joined, 2, Len(joined) - 1)) \o <<joined[Len(joined)]>>

\* the path of a relative reference that has no network location of its own
RelPath(url) ==
    IF StartsWith(url, <<"/","/">>) THEN SubSeq(url, 3, Len(url)) ELSE url

\* the network location of a relative reference //netloc/path, empty when it has none
RelNetloc(url) ==
    IF ~StartsWith(url, <<"/","/">>) THEN <<>>
    ELSE LET rest == SubSeq(url, 3, Len(url))
         IN  IF Find(rest, "/") = 0 THEN rest ELSE SubSeq(rest, 1, Find(rest, "/") - 1)

urljoin(base, url) ==
    IF Len(base) = 0 THEN url
    ELSE IF Len(url) = 0 THEN base
    ELSE IF RelNetloc(url) # <<>>
    THEN UrlUnparse(UrlScheme(base), RelNetloc(url),
                    SubSeq(url, 3 + Len(RelNetloc(url)), Len(url)))
    ELSE IF RelPath(url) = <<>> THEN base
    ELSE LET segments == UrlJoinSegments(base, RelPath(url))
             last     == segments[Len(segments)]
             resolved == ResolveDots(segments, <<>>)
             closed   == IF last = <<".">> \/ last = <<".",".">> THEN Append(resolved, <<>>) ELSE resolved
             path     == Join(closed, "/")
         IN  UrlUnparse(UrlScheme(base), UrlNetloc(base), IF path = <<>> THEN <<"/">> ELSE path)

(***************************************************************************)
(* Program constants.                                                      *)
(***************************************************************************)
CHUNK_SIZE == 128
DefaultRetries == 5
DEFAULT_BASE_URL == <<"h","t","t","p","s",":","/","/","s","c","i","-","h","u","b",".","s","e">>
UNKNOWN_ERROR_MSG == "Unknown error occurred, please refer to log file to get more detail."
HEADERS == [ua \in {"User-Agent"} |-> "Mozilla/5.0 (Macintosh; Intel Mac OS X 11_0_1) AppleWebKit/537.36 (KHTML, like Gecko) Chrome/89.0.4389.90 Safari/537.36"]

\* Python's None, as a string value and as an object
NoneStr == <<"<None>">>
None == [none |-> TRUE]

\* the module-level default configuration
DefaultConfig ==
    [k \in {"base_url", "retries", "use_proxy"} |->
        CASE k = "base_url" -> DEFAULT_BASE_URL
          [] k = "retries" -> DefaultRetries
          [] k = "use_proxy" -> FALSE]

\* exceptions: the class, the message template and its arguments
\* (args: the URLs and identifiers formatted into it; key: the configuration key)
SciDlError(msg, args) == [type |-> "SciDlError", msg |-> msg, args |-> args, key |-> ""]
OtherError(type) == [type |-> type, msg |-> "", args |-> <<>>, key |-> ""]
\* a formatted message that is not an exception
Message(msg, args) == [type |-> "str", msg |-> msg, args |-> args, key |-> ""]

(***************************************************************************)
(* is_valid_doi, Proxy and Sci.                                            *)
(***************************************************************************)
\* a validity check that only rejects the empty identifier
is_valid_doi_nonempty(doi) == Len(doi) > 0

is_valid_doi(doi) == Contains(doi, "/")

Proxy(protocol, user, password, host, port) ==
    [protocol |-> protocol, user |-> user, password |-> password, host |-> host, port |-> port]

\* a proxy URL that carries credentials as soon as one of them is given
to_url_either(self) ==
    IF self.user # <<>> \/ self.password # <<>>
    THEN self.protocol \o <<":","/","/">> \o self.user \o <<":">> \o quote(self.password)
            \o <<"@">> \o self.host \o <<":">> \o IntToStr(self.port)
    ELSE self.protocol \o <<":","/","/">> \o self.host \o <<":">> \o IntToStr(self.port)

to_url(self) ==
    IF self.user # <<>> /\ self.password # <<>>
    THEN self.protocol \o <<":","/","/">> \o self.user \o <<":">> \o quote(self.password)
            \o <<"@">> \o self.host \o <<":">> \o IntToStr(self.port)
    ELSE self.protocol \o <<":","/","/">> \o self.host \o <<":">> \o IntToStr(self.port)

to_requests(self) == [scheme \in {"http", "https"} |-> to_url(self)]

Sci(base_url) == [base_url |-> base_url]

get_protocol(self) == IF StartsWith(self.base_url, <<"h","t","t","p","s">>) THEN <<"h","t","t","p","s">> ELSE <<"h","t","t","p">>

\* a landing-page URL made without a separator
get_matchmaker_url_for_doi_nosep(self, doi) == self.base_url \o doi

\* the value get_matchmaker_url_for_doi returns when it does not raise
get_matchmaker_url_for_doi(self, doi) == urljoin(self.base_url, doi)

\* a normalisation that takes only "https" for a scheme
clean_pdf_url_httpsonly(self, pdf_url) ==
    LET stripped == IF Tail_n(pdf_url, 10) = <<"#","v","i","e","w","=","F","i","t","H">> THEN DropLast(pdf_url, 10) ELSE pdf_url
        schemed  == IF ~StartsWith(stripped, <<"h","t","t","p","s">>)
                    THEN get_protocol(self) \o <<":">> \o stripped
                    ELSE stripped
    IN  Replace(schemed, <<"\\","/">>, <<"/">>)

clean_pdf_url(self, pdf_url) ==
    LET stripped == IF Tail_n(pdf_url, 10) = <<"#","v","i","e","w","=","F","i","t","H">> THEN DropLast(pdf_url, 10) ELSE pdf_url
        schemed  == IF ~(StartsWith(stripped, <<"h","t","t","p","s">>) \/ StartsWith(stripped, <<"h","t","t","p">>))
                    THEN get_protocol(self) \o <<":">> \o stripped
                    ELSE stripped
    IN  Replace(schemed, <<"\\","/">>, <<"/">>)

\* soup.find('embed', id='pdf'): the first such element of the document, 0 when there is none
FindEmbedPdf(content) ==
    IF \E k \in 1..Len(content) : content[k].tag = "embed" /\ content[k].id = "pdf"
    THEN CHOOSE k \in 1..Len(content) :
            /\ content[k].tag = "embed" /\ content[k].id = "pdf"
            /\ \A j \in 1..(k - 1) : ~(content[j].tag = "embed" /\ content[j].id = "pdf")
    ELSE 0

parse_pdf_url(self, content) ==
    LET iframe == FindEmbedPdf(content)
    IN  IF iframe = 0 \/ content[iframe].src = NoneStr THEN NoneStr
        ELSE clean_pdf_url(self, content[iframe].src)

\* soup.find('iframe', id='pdf') of the single-file module
FindIframePdf(content) ==
    IF \E k \in 1..Len(content) : content[k].tag = "iframe" /\ content[k].id = "pdf"
    THEN CHOOSE k \in 1..Len(content) :
            /\ content[k].tag = "iframe" /\ content[k].id = "pdf"
            /\ \A j \in 1..(k - 1) : ~(content[j].tag = "iframe" /\ content[j].id = "pdf")
    ELSE 0

\* SciHub.parse_pdf_url of the single-file module
SciHub_parse_pdf_url(self, content) ==
    LET iframe == FindIframePdf(content)
    IN  IF iframe = 0 \/ content[iframe].src = NoneStr THEN NoneStr
        ELSE clean_pdf_url(self, content[iframe].src)

\* os.path.join of two components
join(a, b) ==
    IF StartsWith(b, <<"/">>) THEN b
    ELSE IF a = <<>> \/ Tail_n(a, 1) = <<"/">> THEN a \o b
    ELSE a \o <<"/">> \o b

\* int(s) for a string of decimal digits; -1 stands for the ValueError of any other string
DigitValue(c) == CHOOSE d \in 0..9 : Digit(d) = c
IsDigits(s) == Len(s) > 0 /\ \A k \in 1..Len(s) : \E d \in 0..9 : Digit(d) = s[k]
RECURSIVE StrToInt(_)
StrToInt(s) == IF Len(s) = 0 THEN 0 ELSE 10 * StrToInt(DropLast(s, 1)) + DigitValue(s[Len(s)])
int(s) == IF IsDigits(s) THEN StrToInt(s) ELSE -1

(***************************************************************************)
(* Inputs: identifiers, configurations, landing pages, responses.          *)
(***************************************************************************)
\* a DOI, a PubMed id (no "/"), a DOI with two "/"
Identifiers == { <<"1","0",".","3","3","9","0","/","c","a","n","c","e","r","s","1","3","1","5","3","8","7","8">>, <<"3","4","3","5","9","7","8","6">>, <<"1","0",".","1","0","0","2","/","j","g","s","/","1","6","4","6","7">> }

ConfigKeys ==
    {"base_url", "retries", "use_proxy", "proxy_protocol", "proxy_user", "proxy_password",
     "proxy_host", "proxy_port", "outdir", "log_file", "debug_mode"}

\* mirror, proxy and logging settings of the explored configurations
Settings ==
    { [base_url |-> <<"h","t","t","p","s",":","/","/","s","c","i","-","h","u","b",".","s","e">>, use_proxy |-> FALSE, debug_mode |-> FALSE,
       proxy |-> Proxy(<<"s","o","c","k","s","5">>, <<>>, <<>>, <<"1","2","7",".","0",".","0",".","1">>, 1080)],
      [base_url |-> <<"h","t","t","p",":","/","/","s","c","i","-","h","u","b",".","s","e">>, use_proxy |-> TRUE, debug_mode |-> TRUE,
       proxy |-> Proxy(<<"s","o","c","k","s","5">>, <<>>, <<>>, <<"1","2","7",".","0",".","0",".","1">>, 1080)],
      [base_url |-> <<"h","t","t","p","s",":","/","/","s","c","i","-","h","u","b",".","s","e">>, use_proxy |-> TRUE, debug_mode |-> FALSE,
       proxy |-> Proxy(<<"h","t","t","p">>, <<"f","o","o">>, <<"b","a","r",";">>, <<"l","o","c","a","l","h","o","s","t">>, 10808)] }

FullConfig(s, retries) ==
    [k \in ConfigKeys |->
        CASE k = "base_url" -> s.base_url
          [] k = "retries" -> retries
          [] k = "use_proxy" -> s.use_proxy
          [] k = "proxy_protocol" -> s.proxy.protocol
          [] k = "proxy_user" -> s.proxy.user
          [] k = "proxy_password" -> s.proxy.password
          [] k = "proxy_host" -> s.proxy.host
          [] k = "proxy_port" -> s.proxy.port
          [] k = "outdir" -> <<"/","o","u","t">>
          [] k = "log_file" -> <<"/","l","o","g","/","s","c","i","-","d","l",".","l","o","g">>
          [] k = "debug_mode" -> s.debug_mode]

Without(c, missing) == [k \in (DOMAIN c) \ missing |-> c[k]]

\* the sets of keys a configuration may lack: none, any one key, and every
\* key but the three that dl_by_doi documents for a run without proxy
MissingSets ==
    {{}} \cup {{k} : k \in ConfigKeys} \cup {ConfigKeys \ {"base_url", "retries", "use_proxy"}}

\* the configurations
Configs ==
    { Without(FullConfig(s, r), m) : s \in Settings, r \in 0..MaxRetries, m \in MissingSets }

Element(tag, id, src) == [tag |-> tag, id |-> id, src |-> src]

\* landing pages, as the sequence of their elements in document order
Pages ==
    { \* no file link at all
      << Element("div", "article", NoneStr) >>,
      \* an embed#pdf without src
      << Element("embed", "pdf", NoneStr) >>,
      \* the old markup: the link is in an iframe#pdf
      << Element("iframe", "pdf", <<"/","/","s","c","i","-","h","u","b",".","s","e","/","d","o","w","n","l","o","a","d","s","/","2","0","2","0","-","0","4","-","2","5","/","4","d","/","1","0",".","1","1","1","1","@","j","g","s",".","1","6","4","6","7",".","p","d","f","#","v","i","e","w","=","F","i","t","H">>) >>,
      \* a host-relative link
      << Element("img", "rollimg", <<"/","p","i","c","t","u","r","e","s","/","r","a","v","e","n","r","o","u","n","d",".","g","i","f">>),
         Element("embed", "pdf", <<"/","d","o","w","n","l","o","a","d","s","/","2","0","2","1","-","0","8","-","1","1","/","f","5","/","g","u","n","d","u","z","2","0","2","1",".","p","d","f","?","d","o","w","n","l","o","a","d","=","t","r","u","e">>) >>,
      \* a scheme-relative link with the viewer fragment
      << Element("embed", "pdf", <<"/","/","s","c","i","-","h","u","b",".","s","e","/","d","o","w","n","l","o","a","d","s","/","2","0","2","0","-","0","4","-","2","5","/","4","d","/","1","0",".","1","1","1","1","@","j","g","s",".","1","6","4","6","7",".","p","d","f","#","v","i","e","w","=","F","i","t","H">>) >>,
      \* an absolute link with escaped slashes
      << Element("embed", "pdf", <<"h","t","t","p","s",":","\\","/","\\","/","s","c","i","-","h","u","b",".","s","e","\\","/","d","o","w","n","l","o","a","d","s","\\","/","a",".","p","d","f">>) >> }

\* status codes of the responses: the code never looks at them
LandingStatusCodes == {200, 404}
FileStatusCodes == {200, 500}

\* the responses a GET can produce; the Content-Length of a file response, when
\* present, is the size of its body
\* the body of a file response: n chunks of CHUNK_SIZE bytes
Body(n) == [k \in 1..n |-> [seq |-> k, size |-> CHUNK_SIZE]]

LandingResponses ==
    { [status |-> st, headers |-> [h \in {"Content-Type"} |-> <<"t","e","x","t","/","h","t","m","l">>], page |-> p, body |-> <<>>] :
        st \in LandingStatusCodes, p \in Pages }

ContentTypes == { <<"a","p","p","l","i","c","a","t","i","o","n","/","p","d","f">>, <<"t","e","x","t","/","h","t","m","l">>, <<"a","p","p","l","i","c","a","t","i","o","n","/","p","d","f",";"," ","c","h","a","r","s","e","t","=","u","t","f","-","8">> }

FileHeaders(n) ==
    { [h \in {"Content-Type", "Content-Length"} |-> IF h = "Content-Type" THEN ct ELSE IntToStr(n * CHUNK_SIZE)] :
        ct \in ContentTypes }
    \cup { [h \in {"Content-Type"} |-> <<"a","p","p","l","i","c","a","t","i","o","n","/","p","d","f">>],
           [h \in {"Content-Length"} |-> IntToStr(n * CHUNK_SIZE)] }

FileResponses ==
    UNION { { [status |-> st, headers |-> hd, page |-> <<>>, body |-> Body(n)] :
                st \in FileStatusCodes, hd \in FileHeaders(n) } : n \in 0..MaxChunks }

(***************************************************************************)
(* State.                                                                  *)
(***************************************************************************)
VARIABLES
    mode,                 \* "cli": the command sci_dl_dl; "lib": the function dl_by_doi;
                          \* "unit": single calls of the methods of Sci and Proxy
    variant,              \* "package": src/sci_dl/; "single_file": the module src/sci_dl.py
    doi,                  \* the identifier given by the caller
    config,               \* the configuration: the content of CONFIG_FILE, or the config argument
    config_file_exists,   \* whether CONFIG_FILE exists
    DEFAULT_CONFIG,       \* the module-level default configuration
    fs_initial,           \* the destination file as it was before the run
    call,                 \* the last single call made: the method and its arguments
    ret,                  \* the value the last single call returned
    pc,                   \* position of the run in the pipeline
    logging_config,       \* arguments of logging.basicConfig, None before the call
    sh,                   \* the Sci object, None before it is built
    dl,                   \* the Dl object, None before it is built
    i,                    \* number of attempts made by the current call of Dl.dl
    requests,             \* every GET issued, in order
    attempts,             \* number of GETs issued for the landing page and for the file
    matchmaker_url,
    matchmaker_response,
    pdf_url,
    pdf_response,
    file,                 \* path of the destination file, NoneStr before it is computed
    fs,                   \* content of the destination file on disk, None when it does not exist
    fp,                   \* file handle: "none", "open", "closed"
    progress,             \* the progress display and its download task
    pos,                  \* number of chunks read from the body of the file response
    trace,                \* the pipeline steps taken, in order
    result,               \* how the run ended, None while it runs
    log,                  \* records written through the logger
    console               \* messages written to the console

envVars == <<mode, variant, doi, config_file_exists, DEFAULT_CONFIG, fs_initial, call, ret>>
objVars == <<logging_config, sh, dl>>
netVars == <<i, requests, attempts>>
resVars == <<matchmaker_url, matchmaker_response, pdf_url, pdf_response>>
fileVars == <<file, fs, fp, progress, pos>>
vars == <<mode, variant, doi, config, config_file_exists, DEFAULT_CONFIG, fs_initial, call, ret, pc, logging_config, sh, dl,
          i, requests, attempts, matchmaker_url, matchmaker_response, pdf_url, pdf_response,
          file, fs, fp, progress, pos, trace, result, log, console>>

\* content of a destination file left by an earlier run
OldContent == << [seq |-> 0, size |-> CHUNK_SIZE] >>

\* the state in which a run of the pipeline starts
Start ==
    /\ doi \in Identifiers
    /\ config_file_exists \in (IF mode = "cli" THEN BOOLEAN ELSE {FALSE})
    /\ config \in (IF mode = "cli"
                   THEN (IF config_file_exists THEN Configs ELSE {None})
                   ELSE Configs \cup {None})
    /\ DEFAULT_CONFIG = DefaultConfig
    /\ pc = "start"
    /\ logging_config = None
    /\ sh = None
    /\ dl = None
    /\ i = 0
    /\ requests = <<>>
    /\ attempts = [landing |-> 0, file |-> 0]
    /\ matchmaker_url = NoneStr
    /\ matchmaker_response = None
    /\ pdf_url = NoneStr
    /\ pdf_response = None
    /\ file = NoneStr
    /\ fs \in (IF mode = "cli" /\ config_file_exists THEN {None, [content |-> OldContent]} ELSE {None})
    /\ fs_initial = fs
    /\ call = None
    /\ ret = None
    /\ fp = "none"
    /\ progress = [live |-> FALSE, task |-> None]
    /\ pos = 0
    /\ trace = <<>>
    /\ result = None
    /\ log = <<>>
    /\ console = <<>>

Init ==
    /\ mode \in {"cli", "lib"}
    /\ variant = "package"
    /\ Start

(***************************************************************************)
(* How a run ends.                                                         *)
(***************************************************************************)
\* what the except clauses of sci_dl_dl write to the log for the exception e:
\* the package logs every exception; the single-file module logs in its
\* "except Exception" clause only, not in "except SciDlError"
BoundaryLog(e) ==
    IF variant = "single_file" /\ e.type = "SciDlError"
    THEN <<>>
    ELSE << [level |-> "exception", record |-> e] >>

\* An exception e leaves the pipeline after the log records "entries" were
\* written.  sci_dl_dl catches it and raises click.UsageError with
\* the message of a SciDlError or with UNKNOWN_ERROR_MSG; dl_by_doi lets it
\* reach its caller.
Raise(e, entries) ==
    /\ pc' = "done"
    /\ IF mode = "cli"
       THEN /\ log' = log \o entries \o BoundaryLog(e)
            /\ result' = [kind |-> "failure", error |-> e, raised |-> "click.UsageError",
                          message |-> IF e.type = "SciDlError" THEN e
                                      ELSE Message(UNKNOWN_ERROR_MSG, <<>>),
                          value |-> None]
       ELSE /\ log' = log \o entries
            /\ result' = [kind |-> "failure", error |-> e, raised |-> e.type, message |-> e, value |-> None]

\* Config.get_config / get: the first key of "keys", in order, that the configuration lacks; 0 when none
FirstMissing(c, keys) ==
    IF \E k \in 1..Len(keys) : keys[k] \notin DOMAIN c
    THEN CHOOSE k \in 1..Len(keys) : keys[k] \notin DOMAIN c /\ \A j \in 1..(k - 1) : keys[j] \in DOMAIN c
    ELSE 0

ProxyKeys == <<"proxy_protocol", "proxy_user", "proxy_password", "proxy_host", "proxy_port">>

\* the keys sci_dl_dl reads before its first request, in the order it reads them
CliKeysRead(c) ==
    <<"debug_mode", "log_file", "base_url", "use_proxy">>
        \o (IF "use_proxy" \in DOMAIN c /\ c["use_proxy"] THEN ProxyKeys ELSE <<>>)
        \o <<"retries">>

\* a library call that reads the proxy keys whatever use_proxy says
LibKeysRead_always(c) ==
    <<"base_url", "use_proxy">> \o ProxyKeys \o <<"retries">>

\* the keys dl_by_doi reads, in the order it reads them
LibKeysRead(c) ==
    <<"base_url", "use_proxy">>
        \o (IF "use_proxy" \in DOMAIN c /\ c["use_proxy"] THEN ProxyKeys ELSE <<>>)
        \o <<"retries">>

ProxyOf(c) ==
    IF c["use_proxy"]
    THEN Proxy(c["proxy_protocol"], c["proxy_user"], c["proxy_password"], c["proxy_host"], c["proxy_port"])
    ELSE None

Dl(retries, proxy) == [retries |-> retries, proxy |-> proxy]

MissingKeyError(key) ==
    [type |-> "SciDlError",
     msg |-> IF variant = "single_file" THEN "malformed configuration file, can't find %s"
             ELSE "malformed configuration, can't find %s",
     args |-> <<>>, key |-> key]

\* Config.load when CONFIG_FILE does not exist
NoConfigFileError ==
    SciDlError(IF variant = "single_file"
               THEN "configuration file %s does not exists, please run \"sci-dl config init\" to create it."
               ELSE "configuration file %s does not exists, please run \"sci-dl init-config\" to create it.",
               <<>>)

\* the messages sci_dl_dl writes to the console
ReceivedMessage(d) ==
    Message(IF variant = "single_file" THEN ":green_book: Received DOI [bold][green]%s[/green][/bold]"
            ELSE "Received DOI [bold][green]%s[/green][/bold]", <<d>>)
FoundMessage(url) ==
    Message(IF variant = "single_file" THEN ":green_book: Find PDF url %s" ELSE "Find PDF url %s", <<url>>)
SavedMessage(f) ==
    Message(IF variant = "single_file" THEN ":green_book: Congratulations, PDF was saved to %s successfully."
            ELSE "Congratulations, PDF was saved to %s successfully.", <<f>>)

(***************************************************************************)
(* sci_dl_dl, up to its first request: load the configuration, configure   *)
(* logging, build the Sci, Proxy and Dl objects.                           *)
(***************************************************************************)
CliSetup ==
    /\ mode = "cli" /\ pc = "start"
    /\ trace' = Append(trace, "setup")
    /\ IF ~config_file_exists
       THEN /\ Raise(NoConfigFileError, <<>>)
            /\ UNCHANGED <<objVars, console>>
       ELSE LET keys == CliKeysRead(config)
                miss == FirstMissing(config, keys)
            IN  IF miss # 0
                THEN /\ Raise(MissingKeyError(keys[miss]), <<>>)
                     \* basicConfig has been called when the missing key is read after log_file
                     /\ logging_config' = IF miss > 2
                                          THEN [level |-> IF config["debug_mode"] THEN "DEBUG" ELSE "WARNING",
                                                filename |-> config["log_file"]]
                                          ELSE logging_config
                     /\ sh' = IF miss > 3 THEN Sci(config["base_url"]) ELSE sh
                     /\ UNCHANGED <<dl, console>>
                ELSE /\ logging_config' = [level |-> IF config["debug_mode"] THEN "DEBUG" ELSE "WARNING",
                                           filename |-> config["log_file"]]
                     /\ sh' = Sci(config["base_url"])
                     /\ dl' = Dl(config["retries"], ProxyOf(config))
                     /\ console' = Append(console, ReceivedMessage(doi))
                     /\ pc' = "validate"
                     /\ UNCHANGED <<result, log>>
    /\ UNCHANGED <<envVars, config, netVars, resVars, fileVars>>

(***************************************************************************)
(* dl_by_doi, up to get_matchmaker_url_for_doi: default the configuration, *)
(* build the Sci, Proxy and Dl objects.                                    *)
(***************************************************************************)
LibSetup ==
    /\ mode = "lib" /\ pc = "start"
    /\ trace' = Append(trace, "setup")
    /\ LET c    == IF config = None THEN DEFAULT_CONFIG ELSE config
           keys == LibKeysRead(c)
           miss == FirstMissing(c, keys)
       IN  /\ config' = c
           /\ IF miss # 0
              THEN /\ Raise(MissingKeyError(keys[miss]), <<>>)
                   /\ sh' = IF miss > 1 THEN Sci(c["base_url"]) ELSE sh
                   /\ UNCHANGED dl
              ELSE /\ sh' = Sci(c["base_url"])
                   /\ dl' = Dl(c["retries"], ProxyOf(c))
                   /\ pc' = "validate"
                   /\ UNCHANGED <<result, log>>
    /\ UNCHANGED <<envVars, logging_config, console, netVars, resVars, fileVars>>

(***************************************************************************)
(* Sci.get_matchmaker_url_for_doi: validate the identifier, build the URL  *)
(* of the landing page.                                                    *)
(***************************************************************************)
GetMatchmakerUrl ==
    /\ pc = "validate"
    /\ trace' = Append(trace, "validate")
    /\ IF ~is_valid_doi(doi)
       THEN /\ Raise(SciDlError("invalid DOI %s", <<doi>>), <<>>)
            /\ UNCHANGED <<matchmaker_url, i>>
       ELSE /\ matchmaker_url' = get_matchmaker_url_for_doi(sh, doi)
            /\ pc' = "fetch_landing"
            /\ i' = 0
            /\ UNCHANGED <<result, log>>
    /\ UNCHANGED <<envVars, config, objVars, requests, attempts, matchmaker_response, pdf_url,
                   pdf_response, fileVars, console>>

(***************************************************************************)
(* Dl.dl: the retry loop around Dl._dl.                                    *)
(***************************************************************************)
\* the URL the current call of Dl.dl was given
CurrentUrl == IF pc = "fetch_landing" THEN matchmaker_url ELSE pdf_url

\* the request Dl._dl issues
Request(url) ==
    [url |-> url, headers |-> HEADERS, stream |-> TRUE,
     proxies |-> IF dl.proxy # None THEN to_requests(dl.proxy) ELSE None]

Fetching == pc \in {"fetch_landing", "fetch_file"}

\* a loop that gives up one attempt early
LoopContinues_short(k, retries) == k < retries - 1

\* a loop that makes one attempt more
LoopContinues_extra(k, retries) == k <= retries

\* for i in range(self.retries): there is a pass number k + 1 after k passes
LoopContinues(k, retries) == k < retries

\* a loop that goes on after a response
AfterResponse_noreturn(phase, md) == phase

\* a library call that hands the file response to the checks of the command
AfterResponse_libverifies(phase, md) ==
    IF phase = "fetch_landing" THEN "parse" ELSE "verify"

\* where the run goes when Dl.dl returns a response: the landing page is
\* parsed; the file response is checked by sci_dl_dl and returned by dl_by_doi
AfterResponse(phase, md) ==
    IF phase = "fetch_landing" THEN "parse"
    ELSE IF md = "cli" THEN "verify" ELSE "done"

Count(url) == IF pc = "fetch_landing"
              THEN [attempts EXCEPT !.landing = @ + 1]
              ELSE [attempts EXCEPT !.file = @ + 1]

\* one pass of the loop in which requests.get raises: the exception is logged and the loop goes on
DlAttemptFails ==
    /\ Fetching
    /\ LoopContinues(i, dl.retries)
    /\ requests' = Append(requests, Request(CurrentUrl))
    /\ attempts' = Count(CurrentUrl)
    /\ i' = i + 1
    /\ log' = log \o << [level |-> "exception", record |-> OtherError("RequestException")],
                        [level |-> "warning", record |-> Message("retrying...", <<>>)] >>
    /\ UNCHANGED <<envVars, config, pc, objVars, resVars, fileVars, trace, result, console>>

\* one pass of the loop in which requests.get returns a response: Dl.dl returns it.
\* The landing page goes to the parser; the file response is checked by
\* sci_dl_dl and is the return value of dl_by_doi.
DlAttemptResponds ==
    /\ Fetching
    /\ LoopContinues(i, dl.retries)
    /\ requests' = Append(requests, Request(CurrentUrl))
    /\ attempts' = Count(CurrentUrl)
    /\ i' = i + 1
    /\ IF pc = "fetch_landing"
       THEN /\ \E r \in LandingResponses : matchmaker_response' = r
            /\ UNCHANGED pdf_response
       ELSE /\ \E r \in FileResponses : pdf_response' = r
            /\ UNCHANGED matchmaker_response
    /\ trace' = Append(trace, pc)
    /\ pc' = AfterResponse(pc, mode)
    /\ IF pc' = "done"
       THEN result' = [kind |-> "returned", error |-> None, raised |-> "", message |-> None,
                       value |-> pdf_response']
       ELSE UNCHANGED result
    /\ UNCHANGED <<envVars, config, objVars, matchmaker_url, pdf_url, fileVars, log, console>>

\* the loop is over without a response
DlExhausted ==
    /\ Fetching
    /\ ~LoopContinues(i, dl.retries)
    /\ trace' = Append(trace, pc)
    /\ Raise(SciDlError("download %s failure", <<CurrentUrl>>), <<>>)
    /\ UNCHANGED <<envVars, config, objVars, netVars, resVars, fileVars, console>>

(***************************************************************************)
(* Reading the landing page and Sci.parse_pdf_url.                         *)
(***************************************************************************)
\* sh.parse_pdf_url: sh is a Sci in the package and a SciHub in the single-file module
ParseOf(self, content) ==
    IF variant = "single_file" THEN SciHub_parse_pdf_url(self, content) ELSE parse_pdf_url(self, content)

\* a pipeline that does not check the parsed URL
NoPdfUrl_unchecked(url) == FALSE

\* sci_dl_dl compares the parsed URL with None, dl_by_doi tests its truth value
NoPdfUrl(url) == IF mode = "cli" THEN url = NoneStr ELSE (url = NoneStr \/ url = <<>>)

ParsePdfUrl ==
    /\ pc = "parse"
    /\ trace' = Append(trace, "parse")
    /\ LET url == ParseOf(sh, matchmaker_response.page)
       IN  IF NoPdfUrl(url)
           THEN /\ Raise(SciDlError("Failed to parse PDF url of DOI %s", <<doi>>),
                         IF mode = "cli"
                         THEN << [level |-> "error", record |-> Message("Failed to parse PDF url of DOI %s", <<doi>>)] >>
                         ELSE <<>>)
                /\ pdf_url' = url
                /\ UNCHANGED <<i, console>>
           ELSE /\ pdf_url' = url
                /\ console' = IF mode = "cli" THEN Append(console, FoundMessage(url)) ELSE console
                /\ pc' = "fetch_file"
                /\ i' = 0
                /\ UNCHANGED <<result, log>>
    /\ UNCHANGED <<envVars, config, objVars, requests, attempts, matchmaker_url, matchmaker_response,
                   pdf_response, fileVars>>

\* the body of the streamed landing-page response cannot be read
ReadLandingFails ==
    /\ pc = "parse"
    /\ trace' = Append(trace, "parse")
    /\ Raise(OtherError("RequestException"), <<>>)
    /\ UNCHANGED <<envVars, config, objVars, netVars, resVars, fileVars, console>>

(***************************************************************************)
(* sci_dl_dl after the file fetch: check the Content-Type, read the        *)
(* Content-Length, name the destination file, register the download task.  *)
(***************************************************************************)
\* a check that accepts every media type beginning with application/pdf
ContentTypeOk_prefix(content_type) == StartsWith(content_type, <<"a","p","p","l","i","c","a","t","i","o","n","/","p","d","f">>)

\* content_type != 'application/pdf' is false
ContentTypeOk(content_type) == content_type = <<"a","p","p","l","i","c","a","t","i","o","n","/","p","d","f">>

\* a name that keeps the "/" of the identifier
FileName_keepslash(d) == d \o <<".","p","d","f">>

\* '%s.pdf' % doi.replace('/', '_')
FileName(d) == Replace(d, <<"/">>, <<"_">>) \o <<".","p","d","f">>

CliVerify ==
    /\ mode = "cli" /\ pc = "verify"
    /\ trace' = Append(trace, "verify")
    /\ LET headers == pdf_response.headers
           fn      == FileName(doi)
       IN  IF "Content-Type" \notin DOMAIN headers
           THEN Raise(OtherError("KeyError"), <<>>) /\ UNCHANGED <<file, progress>>
           ELSE IF ~ContentTypeOk(headers["Content-Type"])
           THEN /\ Raise(SciDlError("Failed to Download PDF url %s of DOI %s", <<pdf_url, doi>>),
                         << [level |-> "error",
                             record |-> Message("Failed to Download PDF url %s of DOI %s", <<pdf_url, doi>>)] >>)
                /\ UNCHANGED <<file, progress>>
           ELSE IF "Content-Length" \notin DOMAIN headers
           THEN Raise(OtherError("KeyError"), <<>>) /\ UNCHANGED <<file, progress>>
           ELSE IF int(headers["Content-Length"]) < 0
           THEN Raise(OtherError("ValueError"), <<>>) /\ UNCHANGED <<file, progress>>
           ELSE IF "outdir" \notin DOMAIN config
           THEN Raise(MissingKeyError("outdir"), <<>>) /\ UNCHANGED <<file, progress>>
           ELSE /\ file' = join(config["outdir"], fn)
                /\ progress' = [progress EXCEPT !.task = [filename |-> fn,
                                                          total |-> int(headers["Content-Length"]),
                                                          completed |-> 0]]
                /\ pc' = "open"
                /\ UNCHANGED <<result, log>>
    /\ UNCHANGED <<envVars, config, objVars, netVars, resVars, fs, fp, pos, console>>

(***************************************************************************)
(* sci_dl_dl, the with statement: start the progress display, open the     *)
(* destination file, copy the body chunk by chunk, close the file.         *)
(***************************************************************************)
\* a with statement that leaves the file open when its body raises
WithExit_leaks(handle, raised) == IF raised THEN handle ELSE "closed"

\* leaving the with statement closes the file, whether its body ended or raised
WithExit(handle, raised) == "closed"

\* open(file, 'wb') creates the file or truncates the one that is there
OpenFile ==
    /\ mode = "cli" /\ pc = "open"
    /\ trace' = Append(trace, "open")
    /\ fs' = [content |-> <<>>]
    /\ fp' = "open"
    /\ progress' = [progress EXCEPT !.live = TRUE]
    /\ pos' = 0
    /\ pc' = "stream"
    /\ UNCHANGED <<envVars, config, objVars, netVars, resVars, file, result, log, console>>

\* open(file, 'wb') raises OSError: the progress display, already started, is stopped
OpenFails ==
    /\ mode = "cli" /\ pc = "open"
    /\ trace' = Append(trace, "open")
    /\ Raise(OtherError("OSError"), <<>>)
    /\ UNCHANGED <<envVars, config, objVars, netVars, resVars, fileVars, console>>

\* one pass of the loop over iter_content(CHUNK_SIZE)
WriteChunk ==
    /\ mode = "cli" /\ pc = "stream"
    /\ pos < Len(pdf_response.body)
    /\ LET chunk == pdf_response.body[pos + 1]
       IN  /\ fs' = [content |-> Append(fs.content, chunk)]
           /\ progress' = [progress EXCEPT !.task.completed = @ + chunk.size]
    /\ pos' = pos + 1
    /\ UNCHANGED <<envVars, config, pc, objVars, netVars, resVars, file, fp, trace, result, log, console>>

\* iter_content raises while the body is read: the with statement closes the
\* file and stops the progress display, the exception goes on
StreamFails ==
    /\ mode = "cli" /\ pc = "stream"
    /\ trace' = Append(trace, "stream")
    /\ fp' = WithExit(fp, TRUE)
    /\ progress' = [progress EXCEPT !.live = FALSE]
    /\ Raise(OtherError("RequestException"), <<>>)
    /\ UNCHANGED <<envVars, config, objVars, netVars, resVars, file, fs, pos, console>>

\* a loop that may stop before the body is exhausted
StreamDone_early(p, body) == TRUE

\* the for loop over iter_content ends when the body is exhausted
StreamDone(p, body) == p = Len(body)

\* the body is exhausted: the with statement closes the file, success is reported
Finish ==
    /\ mode = "cli" /\ pc = "stream"
    /\ StreamDone(pos, pdf_response.body)
    /\ trace' = trace \o <<"stream", "report">>
    /\ fp' = WithExit(fp, FALSE)
    /\ progress' = [progress EXCEPT !.live = FALSE]
    /\ console' = Append(console, SavedMessage(file))
    /\ result' = [kind |-> "success", error |-> None, raised |-> "", message |-> None, value |-> None]
    /\ pc' = "done"
    /\ UNCHANGED <<envVars, config, objVars, netVars, resVars, file, fs, pos, log>>

Next ==
    \/ CliSetup
    \/ LibSetup
    \/ GetMatchmakerUrl
    \/ DlAttemptFails
    \/ DlAttemptResponds
    \/ DlExhausted
    \/ ParsePdfUrl
    \/ ReadLandingFails
    \/ CliVerify
    \/ OpenFile
    \/ OpenFails
    \/ WriteChunk
    \/ StreamFails
    \/ Finish

Spec == Init /\ [][Next]_vars

(***************************************************************************)
(* The single-file module src/sci_dl.py: the same command, with the        *)
(* SciHub class and its own except clauses.                                *)
(***************************************************************************)
InitLegacy ==
    /\ mode = "cli"
    /\ variant = "single_file"
    /\ Start

NextLegacy ==
    \/ CliSetup
    \/ GetMatchmakerUrl
    \/ DlAttemptFails
    \/ DlAttemptResponds
    \/ DlExhausted
    \/ ParsePdfUrl
    \/ ReadLandingFails
    \/ CliVerify
    \/ OpenFile
    \/ OpenFails
    \/ WriteChunk
    \/ StreamFails
    \/ Finish

SpecLegacy == InitLegacy /\ [][NextLegacy]_vars

(***************************************************************************)
(* Single calls of the methods of Sci and Proxy, as the unit tests make    *)
(* them: each behaviour is one call on a fresh object.                     *)
(***************************************************************************)
\* longest middle part of the raw links explored
MaxRawLen == 2

\* longest generated identifier
MaxIdLen == 4

\* all the strings over the alphabet of length n, and of length at most n
RECURSIVE StringsOfLen(_, _)
StringsOfLen(alphabet, n) ==
    IF n = 0 THEN { <<>> }
    ELSE { Append(s, c) : s \in StringsOfLen(alphabet, n - 1), c \in alphabet }
StringsUpTo(alphabet, n) == UNION { StringsOfLen(alphabet, k) : k \in 0..n }

RawAlphabet == { "h", "/", "\\" }
RawPrefixes == { <<>>, <<"h","t","t","p","s",":","/","/">>, <<"h","t","t","p",":","/","/">>, <<"h","t","t","p">>, <<"/","/">>, <<"\\","/","\\","/">>, <<"/">> }
RawSuffixes == { <<>>, <<"#","v","i","e","w","=","F","i","t","H">>, <<"#","v","i","e","w","=","F","i","t","H","#","v","i","e","w","=","F","i","t","H">> }
TestHosts == { <<"s","c","i","-","h","u","b",".","s","e">>, <<"h">> }
TestPaths == { <<"d","o","w","n","l","o","a","d","s","\\","/","2","0","2","0","-","0","4","-","2","5","\\","/","4","d","\\","/","1","0",".","1","1","1","1","@","j","g","s",".","1","6","4","6","7",".","p","d","f">>, <<"a",".","p","d","f">> }

\* the escaped, scheme-less link of test_clean_pdf_url for a host and a path
EscapedLink(host, path) == <<"\\","/","\\","/">> \o host \o <<"\\","/">> \o path \o <<"#","v","i","e","w","=","F","i","t","H">>

\* the src values the calls are made with
RawUrls ==
    { p \o m \o s : p \in RawPrefixes, m \in StringsUpTo(RawAlphabet, MaxRawLen), s \in RawSuffixes }
    \cup { EscapedLink(h, p) : h \in TestHosts, p \in TestPaths }
    \cup { <<"/","d","o","w","n","l","o","a","d","s","/","2","0","2","1","-","0","8","-","1","1","/","f","5","/","g","u","n","d","u","z","2","0","2","1",".","p","d","f","?","d","o","w","n","l","o","a","d","=","t","r","u","e">> }

\* mirrors: with and without TLS, and one with a path
UnitBases == { <<"h","t","t","p","s",":","/","/","s","c","i","-","h","u","b",".","s","e">>, <<"h","t","t","p",":","/","/","s","c","i","-","h","u","b",".","s","e">>, <<"h","t","t","p","s",":","/","/","s","c","i","-","h","u","b",".","s","e","/","m","i","r","r","o","r","/","x">> }

\* identifiers: those of the runs and of the tests, one that names another
\* host, and every string of at most MaxIdLen characters of IdAlphabet
IdAlphabet == { "a", ".", "/" }
UnitIdentifiers ==
    Identifiers \cup StringsUpTo(IdAlphabet, MaxIdLen) \cup
    { <<"1","0",".","1","0","0","2","/","9","7","8","1","1","1","8","4","4","5","1","1","2",".","s","t","a","t","0","6","0","0","3">>, <<"3","3","6","9","2","6","4","5">>, <<"/","/","h","/","x">>, <<"a","/",".",".","/","b">>, <<"1","0",".","1","0","0","2","/","a","/","/","b">> }

UnitProxies ==
    { Proxy(p, u, pw, <<"1","2","7",".","0",".","0",".","1">>, port) :
        p \in { <<"s","o","c","k","s","5">>, <<"h","t","t","p">> }, u \in { <<>>, <<"f","o","o">> },
        pw \in { <<>>, <<"b","a","r",";">>, <<"a","@","b","/","c"," ","d">> }, port \in { 1080, 10808 } }

\* landing pages of the calls of parse_pdf_url
UnitPages ==
    Pages \cup { << Element(tag, "pdf", EscapedLink(h, <<"a",".","p","d","f">>)) >> : tag \in {"embed", "iframe"}, h \in TestHosts }

Returned(v) == [value |-> v, raised |-> None]
Raised(e) == [value |-> NoneStr, raised |-> e]

CallCleanPdfUrl ==
    /\ mode = "unit" /\ pc = "unit"
    /\ pc' = "returned"
    /\ \E base \in UnitBases, raw \in RawUrls :
          /\ call' = [fn |-> "clean_pdf_url", self |-> Sci(base), arg |-> raw]
          /\ ret' = Returned(clean_pdf_url(Sci(base), raw))
    /\ UNCHANGED <<mode, variant, doi, config, config_file_exists, DEFAULT_CONFIG, fs_initial,
                   objVars, netVars, resVars, fileVars, trace, result, log, console>>

CallParsePdfUrl ==
    /\ mode = "unit" /\ pc = "unit"
    /\ pc' = "returned"
    /\ \E base \in UnitBases, page \in UnitPages :
          /\ call' = [fn |-> "parse_pdf_url", self |-> Sci(base), arg |-> page]
          /\ ret' = Returned(ParseOf(Sci(base), page))
    /\ UNCHANGED <<mode, variant, doi, config, config_file_exists, DEFAULT_CONFIG, fs_initial,
                   objVars, netVars, resVars, fileVars, trace, result, log, console>>

CallGetMatchmakerUrl ==
    /\ mode = "unit" /\ pc = "unit"
    /\ pc' = "returned"
    /\ \E base \in UnitBases, d \in UnitIdentifiers :
          /\ call' = [fn |-> "get_matchmaker_url_for_doi", self |-> Sci(base), arg |-> d]
          /\ ret' = IF ~is_valid_doi(d)
                    THEN Raised(SciDlError("invalid DOI %s", <<d>>))
                    ELSE Returned(get_matchmaker_url_for_doi(Sci(base), d))
    /\ UNCHANGED <<mode, variant, doi, config, config_file_exists, DEFAULT_CONFIG, fs_initial,
                   objVars, netVars, resVars, fileVars, trace, result, log, console>>

CallToUrl ==
    /\ mode = "unit" /\ pc = "unit"
    /\ pc' = "returned"
    /\ \E proxy \in UnitProxies :
          /\ call' = [fn |-> "to_url", self |-> proxy, arg |-> None]
          /\ ret' = Returned(to_url(proxy))
    /\ UNCHANGED <<mode, variant, doi, config, config_file_exists, DEFAULT_CONFIG, fs_initial,
                   objVars, netVars, resVars, fileVars, trace, result, log, console>>

CallToRequests ==
    /\ mode = "unit" /\ pc = "unit"
    /\ pc' = "returned"
    /\ \E proxy \in UnitProxies :
          /\ call' = [fn |-> "to_requests", self |-> proxy, arg |-> None]
          /\ ret' = Returned(to_requests(proxy))
    /\ UNCHANGED <<mode, variant, doi, config, config_file_exists, DEFAULT_CONFIG, fs_initial,
                   objVars, netVars, resVars, fileVars, trace, result, log, console>>

InitUnit ==
    /\ mode = "unit"
    /\ variant \in {"package", "single_file"}
    /\ doi = NoneStr
    /\ config = None
    /\ config_file_exists = FALSE
    /\ DEFAULT_CONFIG = DefaultConfig
    /\ fs_initial = None
    /\ call = None
    /\ ret = None
    /\ pc = "unit"
    /\ logging_config = None
    /\ sh = None
    /\ dl = None
    /\ i = 0
    /\ requests = <<>>
    /\ attempts = [landing |-> 0, file |-> 0]
    /\ matchmaker_url = NoneStr
    /\ matchmaker_response = None
    /\ pdf_url = NoneStr
    /\ pdf_response = None
    /\ file = NoneStr
    /\ fs = None
    /\ fp = "none"
    /\ progress = [live |-> FALSE, task |-> None]
    /\ pos = 0
    /\ trace = <<>>
    /\ result = None
    /\ log = <<>>
    /\ console = <<>>

NextUnit ==
    \/ CallCleanPdfUrl
    \/ CallParsePdfUrl
    \/ CallGetMatchmakerUrl
    \/ CallToUrl
    \/ CallToRequests

SpecUnit == InitUnit /\ [][NextUnit]_vars

(***************************************************************************)
(* Properties.                                                             *)
(***************************************************************************)

\* C1: when a call of Dl.dl ends without a response (every attempt failed), it
\* has made exactly "retries" GET attempts, all for the URL it was given, and
\* the run has failed with the SciDlError "download <url> failure" naming
\* that URL; with retries = 0 that is zero attempts.
C1_ExactlyRetriesAttempts ==
    \A phase \in {"fetch_landing", "fetch_file"} :
        LET resp == IF phase = "fetch_landing" THEN matchmaker_response ELSE pdf_response
            url  == IF phase = "fetch_landing" THEN matchmaker_url ELSE pdf_url
            n    == IF phase = "fetch_landing" THEN attempts.landing ELSE attempts.file
        IN  (pc = "done" /\ trace # <<>> /\ trace[Len(trace)] = phase /\ resp = None) =>
                /\ n = dl.retries
                /\ result.kind = "failure"
                /\ result.error = SciDlError("download %s failure", <<url>>)
                /\ Len(requests) >= n
                /\ \A k \in (Len(requests) - n + 1)..Len(requests) : requests[k].url = url

\* a file fetch gave up after two or more failed attempts
C1_Witness ==
    /\ pc = "done" /\ trace # <<>> /\ trace[Len(trace)] = "fetch_file"
    /\ pdf_response = None
    /\ dl.retries >= 2
    /\ attempts.file = dl.retries
    /\ result.error.msg = "download %s failure"

\* C2: the attempt that produces a response is the last attempt of its call
\* of Dl.dl: it is attempt number k <= retries after k - 1 failed ones, no
\* later step issues another GET for that URL, and the response, whatever its
\* status code, stays the one handed to the pipeline (dl_by_doi returns the
\* file response itself).
C2_NoRetryAfterResponse ==
    [][ /\ (matchmaker_response = None /\ matchmaker_response' # None) =>
              /\ attempts'.landing = attempts.landing + 1
              /\ attempts'.landing = i' /\ i' <= dl.retries
              /\ requests'[Len(requests')].url = matchmaker_url
        /\ (pdf_response = None /\ pdf_response' # None) =>
              /\ attempts'.file = attempts.file + 1
              /\ attempts'.file = i' /\ i' <= dl.retries
              /\ requests'[Len(requests')].url = pdf_url
        /\ matchmaker_response # None =>
              /\ matchmaker_response' = matchmaker_response
              /\ attempts'.landing = attempts.landing
        /\ pdf_response # None =>
              /\ pdf_response' = pdf_response
              /\ attempts'.file = attempts.file
              /\ requests' = requests
        /\ (result = None /\ result' # None /\ result'.kind = "returned") =>
              result'.value = pdf_response'
      ]_vars

\* the second attempt for the file produced a 500 response, which dl_by_doi returned
C2_Witness ==
    /\ mode = "lib" /\ pc = "done"
    /\ pdf_response # None /\ pdf_response.status = 500
    /\ attempts.file = 2 /\ i = 2
    /\ result.kind = "returned" /\ result.value = pdf_response

\* C3: once the identifier has been validated, the run has failed with the
\* SciDlError "invalid DOI" exactly when the identifier contains no "/"; and a
\* run given an identifier without "/" never issues a request and ends in
\* failure.
C3_InvalidIdentifier ==
    /\ (\E k \in 1..Len(trace) : trace[k] = "validate") =>
          ( (result # None /\ result.error = SciDlError("invalid DOI %s", <<doi>>))
            <=> ~Contains(doi, "/") )
    /\ ~Contains(doi, "/") =>
          /\ requests = <<>>
          /\ attempts = [landing |-> 0, file |-> 0]
          /\ pc = "done" => result.kind = "failure"

\* an identifier without "/" was rejected by get_matchmaker_url_for_doi
C3_Witness ==
    /\ pc = "done" /\ ~Contains(doi, "/")
    /\ trace[Len(trace)] = "validate"
    /\ result.kind = "failure" /\ result.error.msg = "invalid DOI %s"

\* C4: the steps of a run are taken in the fixed order setup, validate, fetch
\* landing page, parse, fetch file, verify, open and stream, report, each at
\* most once; no step is taken after a failure; the destination file is
\* opened only after the Content-Type check has passed; success is reported
\* only when the whole body has been read and written.
C4_LinearOrder ==
    [][ LET order == <<"setup", "validate", "fetch_landing", "parse", "fetch_file",
                       "verify", "open", "stream", "report">>
        IN  /\ Len(trace') <= Len(order)
            /\ \A k \in 1..Len(trace') : trace'[k] = order[k]
            /\ fp' # "none" =>
                  /\ \E k \in 1..Len(trace') : trace'[k] = "verify"
                  /\ pdf_response' # None
                  /\ "Content-Type" \in DOMAIN pdf_response'.headers
                  /\ pdf_response'.headers["Content-Type"] = <<"a","p","p","l","i","c","a","t","i","o","n","/","p","d","f">>
            /\ (result' # None /\ result'.kind = "success") =>
                  /\ trace' = order
                  /\ pos' = Len(pdf_response'.body)
                  /\ fs'.content = pdf_response'.body
            /\ (result # None /\ result.kind = "failure") => UNCHANGED <<trace, requests, fs, fp>>
      ]_vars

\* a run reported success after a body of two or more chunks
C4_Witness ==
    /\ pc = "done" /\ result.kind = "success"
    /\ Len(pdf_response.body) >= 2
    /\ trace[Len(trace)] = "report"

\* C5: when the landing page that was read has no embed element with id "pdf",
\* or the first one has no src attribute, parse_pdf_url returns None; no file
\* fetch is attempted, the destination file is never opened or changed, and
\* the run ends in failure with the SciDlError "Failed to parse PDF url" that
\* carries the identifier.
C5_ExtractionFailure ==
    [][ LET page    == matchmaker_response'.page
            matches == {k \in 1..Len(page) : page[k].tag = "embed" /\ page[k].id = "pdf"}
            nolink  == \/ matches = {}
                       \/ \E k \in matches : page[k].src = NoneStr /\ \A j \in matches : k <= j
        IN  (matchmaker_response' # None /\ nolink) =>
                /\ parse_pdf_url(sh', page) = NoneStr
                /\ attempts'.file = 0 /\ pdf_response' = None
                /\ fp' = "none" /\ file' = NoneStr /\ fs' = fs
                /\ (pc' = "done" /\ result'.error.type # "RequestException") =>
                      /\ result'.kind = "failure"
                      /\ result'.error = SciDlError("Failed to parse PDF url of DOI %s", <<doi>>)
      ]_vars

\* a landing page whose embed#pdf has no src ended the run with the parse failure
C5_Witness ==
    /\ pc = "done" /\ matchmaker_response # None
    /\ matchmaker_response.page = << Element("embed", "pdf", NoneStr) >>
    /\ result.error.msg = "Failed to parse PDF url of DOI %s"
    /\ result.error.args = <<doi>>

\* C6: in sci_dl_dl, when the file response carries a Content-Type other than
\* exactly "application/pdf", the destination file is never named, opened,
\* created or written, no download task is registered, and the run ends in
\* failure with the SciDlError "Failed to Download PDF url" for that URL and
\* identifier.
C6_UnexpectedContentType ==
    [][ ( /\ mode = "cli" /\ pdf_response' # None
          /\ "Content-Type" \in DOMAIN pdf_response'.headers
          /\ pdf_response'.headers["Content-Type"] # <<"a","p","p","l","i","c","a","t","i","o","n","/","p","d","f">> ) =>
            /\ fp' = "none" /\ file' = NoneStr /\ fs' = fs /\ pos' = 0
            /\ progress'.task = None
            /\ pc' \in {"verify", "done"}
            /\ pc' = "done" =>
                  /\ result'.kind = "failure"
                  /\ result'.error = SciDlError("Failed to Download PDF url %s of DOI %s", <<pdf_url, doi>>)
      ]_vars

\* a file response of type "application/pdf; charset=utf-8" ended a command run in failure
C6_Witness ==
    /\ mode = "cli" /\ pc = "done" /\ pdf_response # None
    /\ "Content-Type" \in DOMAIN pdf_response.headers
    /\ pdf_response.headers["Content-Type"] = <<"a","p","p","l","i","c","a","t","i","o","n","/","p","d","f",";"," ","c","h","a","r","s","e","t","=","u","t","f","-","8">>
    /\ result.kind = "failure"
    /\ result.error.msg = "Failed to Download PDF url %s of DOI %s"
    /\ fp = "none"

\* C7, as claimed: when the file fetch of dl_by_doi returns a response whose
\* Content-Type is not exactly "application/pdf", dl_by_doi fails with the
\* unexpected-content-type error instead of returning the response.
C7_LibVerifies ==
    ( /\ mode = "lib" /\ pc = "done" /\ pdf_response # None
      /\ "Content-Type" \in DOMAIN pdf_response.headers
      /\ pdf_response.headers["Content-Type"] # <<"a","p","p","l","i","c","a","t","i","o","n","/","p","d","f">> ) =>
        /\ result.kind = "failure"
        /\ result.error.msg = "Failed to Download PDF url %s of DOI %s"

\* C7, amended: dl_by_doi does not look at the file response; whatever its
\* Content-Type, the response Dl.dl returned for the file URL is the return
\* value of dl_by_doi, and no file is opened.
C7_LibReturnsUnverified ==
    (mode = "lib" /\ pdf_response # None) =>
        /\ pc = "done"
        /\ result.kind = "returned"
        /\ result.value = pdf_response
        /\ fp = "none" /\ file = NoneStr

\* dl_by_doi returned a text/html file response
C7_Witness ==
    /\ mode = "lib" /\ pc = "done" /\ pdf_response # None
    /\ "Content-Type" \in DOMAIN pdf_response.headers
    /\ pdf_response.headers["Content-Type"] = <<"t","e","x","t","/","h","t","m","l">>
    /\ result.kind = "returned" /\ result.value = pdf_response

\* C8, as claimed: a run that fails for a missing configuration key has
\* issued no request.
C8_MissingKeyBeforeNetwork ==
    (result # None /\ result.kind = "failure" /\ result.error.key # "") => requests = <<>>

\* C9: each of the two URLs of a run receives at most "retries" GETs, so a run
\* issues at most 2 * retries; a GET is only issued by a running call of
\* Dl.dl; the step in which a fetch gives up ends the run, and a run whose
\* landing-page fetch failed has issued no request for a file.
C9_NoPipelineRetry ==
    [][ /\ dl' = None => requests' = <<>>
        /\ dl' # None =>
              /\ attempts'.landing <= dl'.retries
              /\ attempts'.file <= dl'.retries
              /\ Len(requests') = attempts'.landing + attempts'.file
              /\ Len(requests') <= 2 * dl'.retries
        /\ requests' # requests =>
              /\ result = None /\ pc \in {"fetch_landing", "fetch_file"}
              /\ Len(requests') = Len(requests) + 1
        /\ result' # None => pc' = "done"
        /\ (result' # None /\ result'.kind = "failure") =>
              /\ requests' = requests
              /\ matchmaker_response' = None => attempts'.file = 0
        /\ result # None => UNCHANGED <<requests, attempts>>
      ]_vars

\* a run that used every attempt for both URLs and failed on the file
C9_Witness ==
    /\ pc = "done" /\ result.kind = "failure"
    /\ result.error.msg = "download %s failure"
    /\ dl.retries >= 2
    /\ attempts.landing = dl.retries /\ attempts.file = dl.retries
    /\ Len(requests) = 2 * dl.retries

\* C10, as claimed: for a landing page whose embed#pdf has a host-relative src
\* (one "/" at its start), the URL parsed by a resolver with base
\* https://sci-hub.se is the base URL followed by that src.
C10_HostRelativeLink ==
    LET page == matchmaker_response.page
        k    == FindEmbedPdf(page)
    IN  ( /\ matchmaker_response # None /\ pdf_url # NoneStr
          /\ sh.base_url = <<"h","t","t","p","s",":","/","/","s","c","i","-","h","u","b",".","s","e">>
          /\ k # 0 /\ page[k].src # NoneStr
          /\ StartsWith(page[k].src, <<"/">>) /\ ~StartsWith(page[k].src, <<"/","/">>) ) =>
            pdf_url = sh.base_url \o page[k].src

C12_NormalForm ==
    (mode = "unit" /\ pc = "returned" /\ call.fn \in {"clean_pdf_url", "parse_pdf_url"}
        /\ ret.value # NoneStr) =>
        LET url == ret.value
            n   == Len(url)
        IN  /\ \/ (n >= 7 /\ SubSeq(url, 1, 7) = <<"h","t","t","p",":","/","/">>)
               \/ (n >= 8 /\ SubSeq(url, 1, 8) = <<"h","t","t","p","s",":","/","/">>)
            /\ \A k \in 1..(n - 1) : ~(url[k] = "\\" /\ url[k + 1] = "/")
            /\ ~(n >= 10 /\ SubSeq(url, n - 9, n) = <<"#","v","i","e","w","=","F","i","t","H">>)

(***************************************************************************)
(* The proxy URL.                                                          *)
(***************************************************************************)
\* C13: Proxy.to_url() carries credentials if and only if user and password
\* are both non-empty: it is protocol://host:port when either is empty and
\* protocol://user:P@host:port otherwise, P being the percent-encoded
\* password (";" becomes "%3B") and user being inserted as it is;
\* to_requests() maps "http" and "https" to that same URL.
C13_ProxyUrl ==
    (mode = "unit" /\ pc = "returned" /\ call.fn \in {"to_url", "to_requests"}) =>
        LET p        == call.self
            both     == Len(p.user) > 0 /\ Len(p.password) > 0
            hostport == p.host \o <<":">> \o IntToStr(p.port)
            expected == IF both
                        THEN p.protocol \o <<":","/","/">> \o p.user \o <<":">> \o quote(p.password) \o <<"@">> \o hostport
                        ELSE p.protocol \o <<":","/","/">> \o hostport
        IN  /\ ret.raised = None
            /\ call.fn = "to_url" =>
                  /\ ret.value = expected
                  /\ Contains(ret.value, "@") <=> both
                  /\ ~Contains(ret.value, ";")
                  /\ p = Proxy(<<"h","t","t","p">>, <<"f","o","o">>, <<"b","a","r",";">>, <<"1","2","7",".","0",".","0",".","1">>, 10808)
                        => ret.value = <<"h","t","t","p",":","/","/","f","o","o",":","b","a","r","%","3","B","@","1","2","7",".","0",".","0",".","1",":","1","0","8","0","8">>
                  /\ p = Proxy(<<"s","o","c","k","s","5">>, <<>>, <<>>, <<"1","2","7",".","0",".","0",".","1">>, 1080)
                        => ret.value = <<"s","o","c","k","s","5",":","/","/","1","2","7",".","0",".","0",".","1",":","1","0","8","0">>
                  /\ p = Proxy(<<"s","o","c","k","s","5">>, <<"f","o","o">>, <<>>, <<"1","2","7",".","0",".","0",".","1">>, 1080)
                        => ret.value = <<"s","o","c","k","s","5",":","/","/","1","2","7",".","0",".","0",".","1",":","1","0","8","0">>
            /\ call.fn = "to_requests" =>
                  /\ DOMAIN ret.value = {"http", "https"}
                  /\ ret.value["http"] = expected
                  /\ ret.value["https"] = expected

\* to_url was called on a proxy with the user "foo" and the password "bar;"
C13_Witness ==
    /\ mode = "unit" /\ pc = "returned" /\ call.fn = "to_url"
    /\ call.self.user = <<"f","o","o">> /\ call.self.password = <<"b","a","r",";">>
    /\ ret.value = <<"h","t","t","p",":","/","/","f","o","o",":","b","a","r","%","3","B","@","1","2","7",".","0",".","0",".","1",":","1","0","8","0","8">>

(***************************************************************************)
(* The landing-page URL.                                                   *)
(***************************************************************************)
\* C14: for a base mirror URL with no path component and every valid
\* identifier, get_matchmaker_url_for_doi returns the base URL, a "/" and the
\* identifier unchanged, so the landing-page request goes to the configured
\* mirror.
C14_BaseSlashIdentifier ==
    (mode = "unit" /\ pc = "returned" /\ call.fn = "get_matchmaker_url_for_doi") =>
        LET base     == call.self.base_url
            d        == call.arg
            pathless == base \in { <<"h","t","t","p","s",":","/","/","s","c","i","-","h","u","b",".","s","e">>, <<"h","t","t","p",":","/","/","s","c","i","-","h","u","b",".","s","e">> }
            valid    == \E k \in 1..Len(d) : d[k] = "/"
        IN  (pathless /\ valid) =>
                /\ ret.raised = None
                /\ ret.value = base \o <<"/">> \o d

\* C14, amended: for a base mirror URL with no path component and every
\* identifier that is a plain relative path (segments separated by single
\* "/", at least two of them, none empty, none "." or "..", and none of the
\* characters ":", "?", "#", ";" and space), get_matchmaker_url_for_doi
\* returns the base URL, a "/" and the identifier unchanged.
C14_PlainIdentifier ==
    (mode = "unit" /\ pc = "returned" /\ call.fn = "get_matchmaker_url_for_doi") =>
        LET base     == call.self.base_url
            d        == call.arg
            n        == Len(d)
            pathless == base \in { <<"h","t","t","p","s",":","/","/","s","c","i","-","h","u","b",".","s","e">>, <<"h","t","t","p",":","/","/","s","c","i","-","h","u","b",".","s","e">> }
            valid    == \E k \in 1..n : d[k] = "/"
            \* the segment that begins at position a and ends at position b
            Segment(a, b) == /\ a <= b
                             /\ a = 1 \/ d[a - 1] = "/"
                             /\ b = n \/ d[b + 1] = "/"
                             /\ \A k \in a..b : d[k] # "/"
            plain    == /\ n > 0 /\ d[1] # "/" /\ d[n] # "/"
                        /\ \A k \in 1..n : d[k] \notin {":", "?", "#", ";", " "}
                        /\ \A k \in 1..(n - 1) : ~(d[k] = "/" /\ d[k + 1] = "/")
                        /\ \A a \in 1..n, b \in 1..n :
                              Segment(a, b) => SubSeq(d, a, b) \notin { <<".">>, <<".",".">> }
        IN  (pathless /\ valid /\ plain) =>
                /\ ret.raised = None
                /\ ret.value = base \o <<"/">> \o d

\* the landing-page URL of the DOI of the tests was built for https://sci-hub.se
C14_Witness ==
    /\ mode = "unit" /\ pc = "returned" /\ call.fn = "get_matchmaker_url_for_doi"
    /\ call.self = Sci(<<"h","t","t","p","s",":","/","/","s","c","i","-","h","u","b",".","s","e">>)
    /\ call.arg = <<"1","0",".","1","0","0","2","/","9","7","8","1","1","1","8","4","4","5","1","1","2",".","s","t","a","t","0","6","0","0","3">>
    /\ ret.value = <<"h","t","t","p","s",":","/","/","s","c","i","-","h","u","b",".","s","e","/","1","0",".","1","0","0","2","/","9","7","8","1","1","1","8","4","4","5","1","1","2",".","s","t","a","t","0","6","0","0","3">>

(***************************************************************************)
(* The destination file.                                                   *)
(***************************************************************************)
\* C15: on a successful run the output file is named by the identifier with
\* every "/" replaced by "_", followed by ".pdf"; it is placed directly in the
\* configured output directory (the name contains no "/"); an existing file of
\* that name is overwritten: its final content is exactly the chunks read in
\* this run, in order, with nothing of the previous content left.
C15_OutputFile ==
    (mode = "cli" /\ pc = "done" /\ result.kind = "success") =>
        LET n      == Len(doi)
            outdir == config["outdir"]
            fn     == SubSeq(file, Len(outdir) + 2, Len(file))
        IN  /\ Len(file) = Len(outdir) + 1 + n + 4
            /\ SubSeq(file, 1, Len(outdir)) = outdir
            /\ file[Len(outdir) + 1] = "/"
            /\ \A k \in 1..n : fn[k] = (IF doi[k] = "/" THEN "_" ELSE doi[k])
            /\ SubSeq(fn, n + 1, n + 4) = <<".","p","d","f">>
            /\ \A k \in 1..Len(fn) : fn[k] # "/"
            /\ fs # None
            /\ fs.content = pdf_response.body
            /\ \A k \in 1..Len(fs.content) : \A j \in 1..Len(OldContent) : fs.content[k] # OldContent[j]

\* a run succeeded for an identifier with two "/" where the destination file
\* existed before and the body had at least one chunk
C15_Witness ==
    /\ mode = "cli" /\ pc = "done" /\ result.kind = "success"
    /\ doi = <<"1","0",".","1","0","0","2","/","j","g","s","/","1","6","4","6","7">>
    /\ file = <<"/","o","u","t","/","1","0",".","1","0","0","2","_","j","g","s","_","1","6","4","6","7",".","p","d","f">>
    /\ fs_initial = [content |-> OldContent]
    /\ Len(pdf_response.body) > 0
    /\ fs.content = pdf_response.body

(***************************************************************************)
(* Errors at the boundary of the command.                                  *)
(***************************************************************************)
\* C16: every error raised inside the pipeline of the command is caught at
\* the boundary, logged with full detail, and turned into a usage error: a
\* SciDlError shows its own message, every other error shows the generic
\* "Unknown error occurred" message; no error leaves the boundary unlogged
\* or in its raw form.  (A record is written to the log file when
\* logging.basicConfig has been called; before that the logger writes it,
\* traceback included, to the standard error stream.)
C16_BoundaryLogsEveryError ==
    (mode = "cli" /\ pc = "done" /\ result.kind = "failure") =>
        /\ logging_config # None
        /\ result.raised = "click.UsageError"
        /\ result.message = (IF result.error.type = "SciDlError" THEN result.error
                             ELSE Message(UNKNOWN_ERROR_MSG, <<>>))
        /\ Len(log) > 0
        /\ log[Len(log)] = [level |-> "exception", record |-> result.error]

(***************************************************************************)
(* The configuration of dl_by_doi.                                         *)
(***************************************************************************)
\* C17: dl_by_doi requires the proxy_* keys exactly when use_proxy is true.
\* Called without config it runs with base_url https://sci-hub.se, retries 5
\* and no proxy and does not fail for a missing key; with use_proxy false and
\* only base_url, retries and use_proxy present it does not fail for a
\* missing key; with use_proxy true and a proxy_* key absent it raises
\* SciDlError before any request.  The module-level default configuration is
\* left unchanged by every step.
C17_ProxyKeysWhenUsed ==
    [][ /\ DEFAULT_CONFIG' = DefaultConfig
        /\ (mode = "lib" /\ pc = "start") =>
            LET proxy_keys == {"proxy_protocol", "proxy_user", "proxy_password", "proxy_host", "proxy_port"}
                key_failure == /\ pc' = "done"
                               /\ result'.kind = "failure"
                               /\ result'.error.type = "SciDlError"
                               /\ result'.raised = "SciDlError"
                               /\ result'.error.key # ""
                               /\ requests' = <<>>
            IN  /\ config = None =>
                      /\ pc' = "validate"
                      /\ result' = None
                      /\ sh' = [base_url |-> <<"h","t","t","p","s",":","/","/","s","c","i","-","h","u","b",".","s","e">>]
                      /\ dl' = [retries |-> 5, proxy |-> None]
                /\ (config # None /\ DOMAIN config = {"base_url", "retries", "use_proxy"}
                        /\ ~config["use_proxy"]) =>
                      /\ pc' = "validate"
                      /\ result' = None
                      /\ dl'.proxy = None
                /\ (config # None /\ {"base_url", "retries", "use_proxy"} \subseteq DOMAIN config) =>
                      \* a key failure exactly when the proxy is used and one of its keys is absent
                      (key_failure <=> (config["use_proxy"] /\ ~(proxy_keys \subseteq DOMAIN config)))
                /\ (config # None /\ "use_proxy" \in DOMAIN config /\ config["use_proxy"]
                        /\ ~(proxy_keys \subseteq DOMAIN config)) =>
                      key_failure
      ]_vars

\* dl_by_doi was called with use_proxy true and no proxy_host, and raised
\* SciDlError for that key without a request
C17_Witness ==
    /\ mode = "lib" /\ pc = "done"
    /\ config # None /\ "use_proxy" \in DOMAIN config /\ config["use_proxy"]
    /\ "proxy_host" \notin DOMAIN config
    /\ result.kind = "failure" /\ result.error.type = "SciDlError" /\ result.error.key = "proxy_host"
    /\ requests = <<>>

(***************************************************************************)
(* The file handle.                                                        *)
(***************************************************************************)
\* C18: if the body stream fails after k chunks were written, the run of the
\* command ends in failure, never in success, the handle of the destination
\* file is closed, and the partly written file stays on disk holding exactly
\* those k chunks; in every terminal state, success or failure, the handle
\* is closed.
C18_StreamFailure ==
    [][ /\ pc' = "done" => fp' \in {"none", "closed"}
        /\ (mode = "cli" /\ pc = "stream" /\ pc' = "done" /\ result'.kind # "success") =>
              /\ result'.kind = "failure"
              /\ fp = "open" /\ fp' = "closed"
              /\ fs' # None
              /\ Len(fs'.content) = pos
              /\ \A k \in 1..pos : fs'.content[k] = pdf_response.body[k]
              /\ fs' = fs
        /\ (mode = "cli" /\ pc = "stream" /\ pc' = "done" /\ result'.kind = "success") =>
              /\ fp' = "closed"
              /\ pos = Len(pdf_response.body)
      ]_vars

\* the stream failed after one chunk of a body of two: the run failed, the
\* handle is closed and the file holds that one chunk
C18_Witness ==
    /\ mode = "cli" /\ pc = "done" /\ result.kind = "failure"
    /\ trace[Len(trace)] = "stream"
    /\ Len(pdf_response.body) = 2 /\ pos = 1
    /\ fp = "closed"
    /\ fs = [content |-> << pdf_response.body[1] >>]
====
